---- MODULE Spec2Model ----
(***************************************************************************)
(* State-machine model of src/src/sqlengine/sqlengine.py: the classes      *)
(* SQLEngine, MSSQLEngine, AccessEngine and the factory build_engine.      *)
(*                                                                         *)
(* Python values are modelled as follows.                                  *)
(*   str            a TLA+ string; None is the sentinel string None        *)
(*   dict[str,str]  a function from keys to values (<<>> is the empty      *)
(*                  dict); None where a dict is expected is NoneQuery      *)
(*   str | Path     the tuple of path components as pathlib parses them,   *)
(*                  the first one "/" for an absolute path; None where a   *)
(*                  path is expected is NonePath                           *)
(*   a reference to one of the two class-level dicts is [ref |-> class];   *)
(*   a reference to a dict the caller passed is [val |-> dict] (no code    *)
(*   of the module writes to a caller's dict)                              *)
(***************************************************************************)
EXTENDS Integers, Sequences, FiniteSets, TLC

VARIABLES classQuery, instances, frame, last, ncalls, connLog

vars == <<classQuery, instances, frame, last, ncalls, connLog>>

(* ------------------------------ bounds --------------------------------- *)
MaxCalls == 2

(* ------------------------------ values --------------------------------- *)
None == "None"
NoneQuery == [None |-> None]
NonePath == <<None>>

Cwd == <<"/", "work">>
RelPath == <<"a.accdb">>
AbsPath == <<"/", "data", "b.accdb">>

Drivers == {None, "mssql", "access", "MSSQL", "mssql+pyodbc", ""}
Hosts == {None, "srv"}
Databases == {None, "db"}
Queries == {NoneQuery, [timeout |-> "5"]}
PathArgs == {NonePath, RelPath, AbsPath}

SeqThreads == {"main"}
ConcThreads == {"t1", "t2"}

(* --------------------------- pure helpers ------------------------------ *)
RECURSIVE Join(_)
Join(parts) ==
  IF Len(parts) = 0 THEN ""
  ELSE IF Len(parts) = 1 THEN parts[1]
  ELSE parts[1] \o "/" \o Join(Tail(parts))

IsAbsolute(p) == Len(p) > 0 /\ p[1] = "/"

Absolute(p) == IF IsAbsolute(p) THEN p ELSE Cwd \o p

PathStr(p) ==
  IF Len(p) = 0 THEN "."
  ELSE IF IsAbsolute(p) THEN "/" \o Join(Tail(p))
  ELSE Join(p)

DictSet(d, k, v) == [x \in (DOMAIN d) \cup {k} |-> IF x = k THEN v ELSE d[x]]

Deref(q, cq) == IF "ref" \in DOMAIN q THEN cq[q.ref] ELSE q.val

(* --------------------- the wrapped library (sqlalchemy) ---------------- *)
(* URL.create: drivername must be a str (TypeError otherwise); the query   *)
(* mapping is copied into an immutable mapping, None becoming the empty    *)
(* one.                                                                    *)
URLCreateRaises(drivername) == drivername = None

URLCreate(drivername, host, database, query) ==
  [drivername |-> drivername,
   host       |-> host,
   database   |-> database,
   query      |-> IF query = NoneQuery THEN <<>> ELSE query]

(* create_engine(url): an Engine bound to url; it opens no connection.     *)
CreateEngine(url) == [url |-> url]

NoURL == [drivername |-> None]
NoEngine == [url |-> NoURL]

(* ------------------------- class-level attributes ---------------------- *)
MSSQLEngine_driver == "mssql+pyodbc"
MSSQLEngine_query == [driver |-> "SQL Server Native Client 11.0"]
AccessEngine_driver == "access+pyodbc"
AccessEngine_query ==
  [driver |-> "Microsoft Access Driver (*.mdb, *.accdb)", ExtendedAnsiSql |-> "1"]

(* ------------------------------ build_engine --------------------------- *)
BuildArgs ==
  [driver : Drivers, host : Hosts, database : Databases, query : Queries,
   local_db_filepath : PathArgs]

\* the calls two threads make at the same time
ConcArgs ==
  [driver : {"mssql", "access", "MSSQL"}, host : {None}, database : {"db"},
   query : {NoneQuery}, local_db_filepath : {RelPath, AbsPath}]

NoArgs ==
  [driver |-> None, host |-> None, database |-> None, query |-> NoneQuery,
   local_db_filepath |-> NonePath]

\* the parameters of SQLEngine.__init__ before a caller has set them
NoParams ==
  [driver |-> None, host |-> None, database |-> None, query |-> [val |-> NoneQuery]]

PreconditionDropped(driver, local_db_filepath) == TRUE

\* line 138
Precondition(driver, local_db_filepath) ==
  driver # None \/ local_db_filepath # NonePath

BranchWithoutMSSQL(driver) ==
  IF driver = "access" THEN "AccessEngine" ELSE "SQLEngine"

\* lines 140, 146, 150
Branch(driver) ==
  IF driver = "mssql" THEN "MSSQLEngine"
  ELSE IF driver = "access" THEN "AccessEngine"
  ELSE "SQLEngine"

AccessPreconditionDropped(local_db_filepath) == TRUE

\* line 147
AccessPrecondition(local_db_filepath) == local_db_filepath # NonePath

\* lines 141-144: the arguments handed to MSSQLEngine
MSSQLArgs(a) == [NoParams EXCEPT !.host = a.host, !.database = a.database]

GenericArgsWithPath(a) ==
  [driver |-> a.driver, host |-> a.host,
   database |-> IF a.local_db_filepath = NonePath THEN a.database
                ELSE PathStr(a.local_db_filepath),
   query |-> [val |-> a.query]]

\* lines 152-157: the arguments handed to SQLEngine
GenericArgs(a) ==
  [driver |-> a.driver, host |-> a.host, database |-> a.database,
   query |-> [val |-> a.query]]

ExceptHandlerWrapping(e) == "RuntimeError"

\* lines 158-159
ExceptHandler(e) == e

AccessDBQAsGiven(db_path) == PathStr(db_path)

\* line 105, right-hand side
AccessDBQ(db_path) == PathStr(Absolute(db_path))

ConnectRequestsTwice(inst) == <<inst.engine, inst.engine>>

\* line 46
ConnectRequests(inst) == <<inst.engine>>

(* ------------------------------- frames -------------------------------- *)
ClassQuery0 == [MSSQLEngine |-> MSSQLEngine_query, AccessEngine |-> AccessEngine_query]

\* a thread's call in progress: build_engine's arguments, the class chosen,
\* the constructor's locals, and what the call has done so far (before: the
\* class-level dicts as the call found them; trace: its library calls)
IdleFrame ==
  [pc |-> "idle", args |-> NoArgs, cls |-> "none", db_path |-> NonePath,
   params |-> NoParams, self |-> NoParams, url |-> NoURL, trace |-> <<>>,
   before |-> ClassQuery0]

Idle(t) == frame[t].pc = "idle"

\* calls begun so far, finished or not
Started == ncalls + Len(connLog) + Cardinality({t \in DOMAIN frame : ~Idle(t)})

\* what the caller of a finished build_engine call observes
CallRecord(f, outcome, engine, trace, after) ==
  [cls |-> f.cls, args |-> f.args, outcome |-> outcome, engine |-> engine,
   trace |-> trace, before |-> f.before, after |-> after]

NoCall == CallRecord(IdleFrame, "none", NoEngine, <<>>, ClassQuery0)

\* an exception leaving a constructor: in build_engine's generic branch it
\* passes through the except clause, in the others it propagates untouched
Raised(f, e) == IF f.cls = "SQLEngine" THEN ExceptHandler(e) ELSE e

Finish(t, f, outcome, engine, trace) ==
  /\ last' = CallRecord(f, outcome, engine, trace, classQuery')
  /\ ncalls' = ncalls + 1
  /\ frame' = [frame EXCEPT ![t] = IdleFrame]

AssertSpecify == "AssertionError: Specify a driver or local database file path."
AssertAccess == "AssertionError: Using Access you must specify a local database file path."

(* ------------------------------- actions ------------------------------- *)
\* build_engine, lines 138-157: the two assertions and the choice of class
BuildEngine(t, argset) ==
  /\ Idle(t)
  /\ Started < MaxCalls
  /\ UNCHANGED <<classQuery, instances, connLog>>
  /\ \E a \in argset :
       LET f == [IdleFrame EXCEPT !.args = a, !.cls = Branch(a.driver),
                                  !.before = classQuery]
       IN
       IF ~Precondition(a.driver, a.local_db_filepath)
       THEN Finish(t, [f EXCEPT !.cls = "none"], AssertSpecify, NoEngine, <<>>)
       ELSE IF Branch(a.driver) = "MSSQLEngine"
       THEN /\ frame' = [frame EXCEPT ![t] =
                   [f EXCEPT !.pc = "MSSQLEngine.__init__",
                             !.params = MSSQLArgs(a)]]
            /\ UNCHANGED <<last, ncalls>>
       ELSE IF Branch(a.driver) = "AccessEngine"
       THEN IF ~AccessPrecondition(a.local_db_filepath)
            THEN Finish(t, f, AssertAccess, NoEngine, <<>>)
            ELSE /\ frame' = [frame EXCEPT ![t] =
                        [f EXCEPT !.pc = "AccessEngine.__init__",
                                  !.db_path = a.local_db_filepath]]
                 /\ UNCHANGED <<last, ncalls>>
       ELSE /\ frame' = [frame EXCEPT ![t] =
                   [f EXCEPT !.pc = "SQLEngine.__init__",
                             !.params = GenericArgs(a)]]
            /\ UNCHANGED <<last, ncalls>>

\* MSSQLEngine.__init__, lines 68-74: self.driver and self.query are the
\* class attributes
MSSQLEngineInit(t) ==
  /\ frame[t].pc = "MSSQLEngine.__init__"
  /\ frame' = [frame EXCEPT ![t].pc = "SQLEngine.__init__",
                            ![t].params.driver = MSSQLEngine_driver,
                            ![t].params.query = [ref |-> "MSSQLEngine"]]
  /\ UNCHANGED <<classQuery, instances, last, ncalls, connLog>>

\* AccessEngine.__init__, lines 104-111: Path(None) raises TypeError before
\* the dict is written; otherwise DBQ is stored in the class-level dict, which
\* is then handed to SQLEngine.__init__ by reference
AccessEngineInit(t) ==
  /\ frame[t].pc = "AccessEngine.__init__"
  /\ UNCHANGED <<instances, connLog>>
  /\ IF frame[t].db_path = NonePath
     THEN /\ UNCHANGED classQuery
          /\ Finish(t, frame[t], Raised(frame[t], "TypeError"), NoEngine, frame[t].trace)
     ELSE /\ classQuery' = [classQuery EXCEPT !.AccessEngine =
                   DictSet(@, "DBQ", AccessDBQ(frame[t].db_path))]
          /\ frame' = [frame EXCEPT ![t].pc = "SQLEngine.__init__",
                          ![t].params = [driver |-> AccessEngine_driver,
                                         host |-> None, database |-> None,
                                         query |-> [ref |-> "AccessEngine"]]]
          /\ UNCHANGED <<last, ncalls>>

\* SQLEngine.__init__, lines 30-41: the four attributes, then URL.create
SQLEngineInitURL(t) ==
  /\ frame[t].pc = "SQLEngine.__init__"
  /\ UNCHANGED <<classQuery, instances, connLog>>
  /\ LET me == frame[t].params
         tr == Append(frame[t].trace, "URL.create")
     IN IF URLCreateRaises(me.driver)
        THEN Finish(t, frame[t], Raised(frame[t], "TypeError"), NoEngine, tr)
        ELSE /\ frame' = [frame EXCEPT ![t].pc = "create_engine",
                            ![t].self = me,
                            ![t].url = URLCreate(me.driver, me.host, me.database,
                                                 Deref(me.query, classQuery)),
                            ![t].trace = tr]
             /\ UNCHANGED <<last, ncalls>>

\* SQLEngine.__init__, line 43, and the return of .engine (lines 144, 148,
\* 157): create_engine either returns an Engine or raises (dialect or DBAPI
\* not importable)
SQLEngineInitEngine(t) ==
  /\ frame[t].pc = "create_engine"
  /\ UNCHANGED <<classQuery, connLog>>
  /\ LET f == frame[t]
         tr == Append(f.trace, "create_engine")
     IN \/ /\ instances' = Append(instances,
                   [cls |-> f.cls, db_path |-> f.db_path,
                    driver |-> f.self.driver, host |-> f.self.host,
                    database |-> f.self.database, query |-> f.self.query,
                    url |-> f.url, engine |-> CreateEngine(f.url)])
           /\ Finish(t, f, "returned", CreateEngine(f.url), tr)
        \/ /\ Finish(t, f, Raised(f, "create_engine error"), NoEngine, tr)
           /\ UNCHANGED instances

\* SQLEngine.connect, lines 45-46
Connect(t) ==
  /\ Idle(t)
  /\ Started < MaxCalls
  /\ \E i \in 1..Len(instances) :
       connLog' = Append(connLog,
                         [inst |-> i, requests |-> ConnectRequests(instances[i])])
  /\ UNCHANGED <<classQuery, instances, frame, last, ncalls>>

Init ==
  /\ classQuery = ClassQuery0
  /\ instances = <<>>
  /\ frame = [t \in SeqThreads |-> IdleFrame]
  /\ last = NoCall
  /\ ncalls = 0
  /\ connLog = <<>>

InitConc ==
  /\ classQuery = ClassQuery0
  /\ instances = <<>>
  /\ frame = [t \in ConcThreads |-> IdleFrame]
  /\ last = NoCall
  /\ ncalls = 0
  /\ connLog = <<>>

Next ==
  \/ \E t \in DOMAIN frame : BuildEngine(t, BuildArgs)
  \/ \E t \in DOMAIN frame : MSSQLEngineInit(t)
  \/ \E t \in DOMAIN frame : AccessEngineInit(t)
  \/ \E t \in DOMAIN frame : SQLEngineInitURL(t)
  \/ \E t \in DOMAIN frame : SQLEngineInitEngine(t)
  \/ \E t \in DOMAIN frame : Connect(t)

NextConc ==
  \/ \E t \in DOMAIN frame : BuildEngine(t, ConcArgs)
  \/ \E t \in DOMAIN frame : MSSQLEngineInit(t)
  \/ \E t \in DOMAIN frame : AccessEngineInit(t)
  \/ \E t \in DOMAIN frame : SQLEngineInitURL(t)
  \/ \E t \in DOMAIN frame : SQLEngineInitEngine(t)
  \/ \E t \in DOMAIN frame : Connect(t)

\* one thread: calls run one after the other
Spec == Init /\ [][Next]_vars
\* two threads whose steps interleave
SpecConc == InitConc /\ [][NextConc]_vars

(* ------------------------------ properties ----------------------------- *)
Returned(c) == c.outcome = "returned"

\* the absolute form of the two paths used, written out
ExpectedDBQ(p) == IF p = RelPath THEN "/work/a.accdb" ELSE "/data/b.accdb"

\* what URL.query shows for a query argument
QueryParams(q) == IF q = NoneQuery THEN <<>> ELSE q

HasDBQ(cq) == "DBQ" \in DOMAIN cq.AccessEngine

\* C1: a build_engine call with driver None and local_db_filepath None ends in
\* the first AssertionError, having assembled no URL, created no engine and
\* left both class-level query dicts as it found them, whatever host, database
\* and query are.
C1_NoDriverNoPath ==
  (ncalls > 0 /\ last.args.driver = None /\ last.args.local_db_filepath = NonePath)
    => /\ last.outcome = AssertSpecify
       /\ last.trace = <<>>
       /\ last.engine = NoEngine
       /\ last.after = last.before

C1_Witness ==
  /\ ncalls > 1
  /\ last.args.driver = None /\ last.args.local_db_filepath = NonePath
  /\ last.args.host # None /\ last.args.database # None
  /\ last.args.query # NoneQuery
  /\ last.outcome = AssertSpecify
  /\ HasDBQ(last.before)

\* C2: a build_engine call with driver "mssql" that returns gives an engine
\* whose URL has drivername "mssql+pyodbc", the caller's host and database and
\* exactly the one preset query parameter, after any earlier calls.
C2_MSSQLURL ==
  (last.args.driver = "mssql" /\ Returned(last))
    => last.engine.url =
         [drivername |-> "mssql+pyodbc", host |-> last.args.host,
          database |-> last.args.database,
          query |-> [driver |-> "SQL Server Native Client 11.0"]]

C2_Witness ==
  /\ last.args.driver = "mssql" /\ Returned(last)
  /\ last.args.host = None /\ last.args.database # None
  /\ Len(instances) = 2 /\ instances[1].cls = "AccessEngine"

\* C3: a build_engine call with driver "access" and a path that returns gives
\* an engine whose URL has drivername "access+pyodbc", no host, no database and
\* exactly the two preset parameters plus DBQ, the absolute form of the path;
\* and every Access engine built so far, in calls made one after the other,
\* still has the DBQ of its own path.
C3_AccessURL ==
  /\ (last.args.driver = "access" /\ Returned(last))
       => last.engine.url =
            [drivername |-> "access+pyodbc", host |-> None, database |-> None,
             query |-> [driver |-> "Microsoft Access Driver (*.mdb, *.accdb)",
                        ExtendedAnsiSql |-> "1",
                        DBQ |-> ExpectedDBQ(last.args.local_db_filepath)]]
  /\ \A i \in 1..Len(instances) :
       instances[i].cls = "AccessEngine"
         => instances[i].engine.url.query.DBQ = ExpectedDBQ(instances[i].db_path)

C3_Witness ==
  /\ Len(instances) = 2
  /\ instances[1].cls = "AccessEngine" /\ instances[2].cls = "AccessEngine"
  /\ instances[1].db_path = RelPath /\ instances[2].db_path = AbsPath
  /\ last.args.driver = "access" /\ Returned(last)

\* C4: a build_engine call with driver "access" and local_db_filepath None
\* ends in the Access AssertionError before AccessEngine is constructed: no
\* URL, no engine, and the class-level dicts, a DBQ left by an earlier call
\* included, are as the call found them.
C4_AccessNoPath ==
  (last.args.driver = "access" /\ last.args.local_db_filepath = NonePath)
    => /\ last.outcome = AssertAccess
       /\ last.trace = <<>>
       /\ last.engine = NoEngine
       /\ last.after = last.before

C4_Witness ==
  /\ last.args.driver = "access" /\ last.args.local_db_filepath = NonePath
  /\ last.outcome = AssertAccess
  /\ HasDBQ(last.before) /\ HasDBQ(classQuery)

\* C5: a build_engine call whose driver is a string other than "mssql" and
\* "access" builds a generic SQLEngine: if it returns, the URL carries the
\* caller's driver, host, database and query and nothing else; if URL
\* assembly or engine creation raises, that exception reaches the caller and
\* there is no engine.
C5_GenericURL ==
  (ncalls > 0 /\ last.args.driver \notin {None, "mssql", "access"})
    => /\ last.cls = "SQLEngine"
       /\ Returned(last) =>
            last.engine.url =
              [drivername |-> last.args.driver, host |-> last.args.host,
               database |-> last.args.database,
               query |-> QueryParams(last.args.query)]
       /\ ~Returned(last) =>
            /\ last.engine = NoEngine
            /\ last.trace = <<"URL.create", "create_engine">>
            /\ last.outcome = "create_engine error"

C5_Witness ==
  /\ last.args.driver = "MSSQL" /\ Returned(last)
  /\ last.args.query # NoneQuery /\ last.args.local_db_filepath # NonePath
  /\ HasDBQ(classQuery)

\* C6: every existing instance's driver, host, database and query attributes
\* are the ones its own url encodes, and its engine is the one made from that
\* url.
C6_AttributesMatchURL ==
  \A i \in 1..Len(instances) :
    LET me == instances[i]
    IN /\ me.driver = me.url.drivername
       /\ me.host = me.url.host
       /\ me.database = me.url.database
       /\ QueryParams(Deref(me.query, classQuery)) = me.url.query
       /\ me.engine = CreateEngine(me.url)

\* C7: a build_engine call that returns has made one URL.create call and then
\* one create_engine call, a call that raises has made no library call after
\* the one that raised, no call requests a connection, and each connect()
\* makes one request, to the engine of the instance it is called on.
C7_OneURLOneEngine ==
  /\ ncalls > 0 =>
       /\ Returned(last) => last.trace = <<"URL.create", "create_engine">>
       /\ last.outcome \in {AssertSpecify, AssertAccess} => last.trace = <<>>
       /\ last.outcome = "TypeError" => last.trace = <<"URL.create">>
       /\ last.outcome = "create_engine error"
            => last.trace = <<"URL.create", "create_engine">>
  /\ \A k \in 1..Len(connLog) :
       connLog[k].requests = <<instances[connLog[k].inst].engine>>

C7_Witness ==
  /\ Returned(last)
  /\ Len(connLog) = 1
  /\ connLog[1].requests = <<last.engine>>

\* the arguments the branch chosen for a.driver passes on
SameBranchArgs(a, b) ==
  /\ a.driver = b.driver
  /\ IF a.driver = "mssql" THEN a.host = b.host /\ a.database = b.database
     ELSE IF a.driver = "access" THEN a.local_db_filepath = b.local_db_filepath
     ELSE a.host = b.host /\ a.database = b.database /\ a.query = b.query

\* C8: two consecutive build_engine calls that return and agree on the
\* arguments of their branch (mssql: host and database; access: the path;
\* other: driver, host, database and query) return engines with the same URL.
C8_OtherArgsIgnored ==
  [][(/\ ncalls' = ncalls + 1
      /\ Returned(last) /\ Returned(last')
      /\ SameBranchArgs(last.args, last'.args))
       => last'.engine.url = last.engine.url]_vars

C8_Witness ==
  /\ Len(instances) = 2 /\ ncalls = 2
  /\ Returned(last) /\ last.args.driver = "MSSQL"
  /\ last.args.local_db_filepath = AbsPath
  /\ instances[1].url = instances[2].url

\* C9: when build_engine calls with driver "access" run in two threads, every
\* engine built has in its URL the DBQ of its own call's path.
C9_OwnDBQ ==
  \A i \in 1..Len(instances) :
    instances[i].cls = "AccessEngine"
      => instances[i].url.query.DBQ = ExpectedDBQ(instances[i].db_path)

====
